---- MODULE Spec2Model ----
(***************************************************************************)
(* Model of the simple-vad-demo backend: per-connection audio sessions     *)
(* (resampler, frame buffer, hysteresis) driven by the /ws endpoint.       *)
(*                                                                         *)
(* Audio samples are abstracted to the confidence level (in tenths) that   *)
(* the scorer gives to a frame made only of such samples.  Confidences and *)
(* thresholds are integers in tenths: 0.5 is 5, 0.3 is 3, 0.1 is 1.        *)
(* The frame size and the minimum durations are scaled down so that whole  *)
(* frames and whole utterances are enumerable (see the scale section).     *)
(***************************************************************************)
EXTENDS Integers, Sequences, FiniteSets, TLC

(***************************************************************************)
(* Scale of the model                                                      *)
(***************************************************************************)
\* inbound text frames the one client of SpecSolo sends
MaxMsgs == 4
\* inbound text frames each of the two clients of Spec sends
MaxDuoMsgs == 2
\* calls each caller of SpecService makes on the ConnectionService
MaxCalls == 3
\* longest decoded PCM chunk (24 kHz samples) one audio_chunk carries
MaxChunkLen == 3
\* longest decoded PCM chunk of the client of SpecLong, and the number of
\* audio chunks it sends
MaxLongLen == 9
MaxLongMsgs == 2
\* text frames the client of SpecTalk sends
MaxTalkMsgs == 9
\* VADService.VAD_CHUNK_SIZE (512 in the source), in model samples
VAD_CHUNK_SIZE == 2
\* VADService.__init__ min_speech_duration_ms (150 in the source), scaled
min_speech_duration_ms == 4
\* VADService.__init__ min_silence_duration_ms (400 in the source), scaled
min_silence_duration_ms == 6
\* the end-to-end scenario, in 24 kHz samples at the model's scale: 150 ms of
\* silence in one chunk, 400 ms of tone, 500 ms of silence
LeadSamples == 6
ToneSamples == 16
TrailSamples == 20

(***************************************************************************)
(* Program constants                                                       *)
(***************************************************************************)
\* SileroVADProcessor.frames_per_ms = sample_rate / 1000, with the model's
\* sample rate of 1000 samples per second (one 16 kHz-side sample per ms)
frames_per_ms == 1
\* speech_threshold = 0.5, in tenths
speech_threshold == 5
\* silence_threshold = 0.3, in tenths
silence_threshold == 3
\* the noise floor of handle_audio_chunk: confidence > 0.1, in tenths
CONFIDENCE_FLOOR == 1

\* the WebSocket objects that reach the /ws endpoint
Conns == {"A", "B"}

\* sample levels: silence, a murmur at the speech threshold, a loud tone
SILENCE == 1
MURMUR == 5
TONE == 9
Levels == {SILENCE, MURMUR, TONE}

\* np.array([], dtype=np.float32)
EmptyArray == <<>>

\* a PCM chunk of n samples, all of one level
Uniform(level, n) == [i \in 1..n |-> level]

\* the decoded PCM chunks a client can make the decoder produce
PcmChunks == {Uniform(l, n) : l \in Levels, n \in 1..MaxChunkLen}

RECURSIVE SumSeq(_)
SumSeq(s) == IF s = <<>> THEN 0 ELSE Head(s) + SumSeq(Tail(s))

RECURSIVE Concat(_)
\* np.concatenate of a sequence of arrays
Concat(ss) == IF ss = <<>> THEN <<>> ELSE Head(ss) \o Concat(Tail(ss))

(***************************************************************************)
(* AudioService                                                            *)
(***************************************************************************)
\* AudioService.__init__ (the decoder handle is the environment's)
AudioServiceInit == [audio_buffer |-> EmptyArray]

\* np.arange(0, n, 1): every index below n
ArangeIndices_Step1(n) == [k \in 1..n |-> k - 1]

\* np.arange(0, n, 1.5).astype(int): the indices 0, 1, 3, 4, 6, ... below n
\* (0-based), ceil(n / 1.5) of them
ArangeIndices(n) == [k \in 1..((2 * n + 2) \div 3) |-> (3 * (k - 1)) \div 2]

\* a resampler that forgets a chunk too short to produce output
resample_24k_to_16k_DropsShort(svc, audio_24k) ==
    LET buf == svc.audio_buffer \o audio_24k
    IN  IF Len(buf) >= 3
        THEN LET indices == ArangeIndices(Len(buf))
                 resampled == [k \in 1..Len(indices) |-> buf[indices[k] + 1]]
                 last_used_idx == IF Len(indices) > 0
                                  THEN indices[Len(indices)] ELSE 0
             IN  [resampled |-> resampled,
                  svc |-> [audio_buffer |->
                             SubSeq(buf, last_used_idx + 1, Len(buf))]]
        ELSE [resampled |-> EmptyArray, svc |-> svc]

\* a resampler that keeps only the samples after the last one it used
resample_24k_to_16k_KeepsUnused(svc, audio_24k) ==
    LET buf == svc.audio_buffer \o audio_24k
    IN  IF Len(buf) >= 3
        THEN LET indices == ArangeIndices(Len(buf))
                 resampled == [k \in 1..Len(indices) |-> buf[indices[k] + 1]]
                 last_used_idx == IF Len(indices) > 0
                                  THEN indices[Len(indices)] ELSE 0
             IN  [resampled |-> resampled,
                  svc |-> [audio_buffer |->
                             SubSeq(buf, last_used_idx + 2, Len(buf))]]
        ELSE [resampled |-> EmptyArray, svc |-> [audio_buffer |-> buf]]

\* AudioService.resample_24k_to_16k: the returned array and the new buffer
resample_24k_to_16k(svc, audio_24k) ==
    LET buf == svc.audio_buffer \o audio_24k
    IN  IF Len(buf) >= 3
        THEN LET indices == ArangeIndices(Len(buf))
                 resampled == [k \in 1..Len(indices) |-> buf[indices[k] + 1]]
                 last_used_idx == IF Len(indices) > 0
                                  THEN indices[Len(indices)] ELSE 0
             IN  [resampled |-> resampled,
                  svc |-> [audio_buffer |->
                             SubSeq(buf, last_used_idx + 1, Len(buf))]]
        ELSE [resampled |-> EmptyArray, svc |-> [audio_buffer |-> buf]]

\* AudioService.reset
AudioServiceReset(svc) == [svc EXCEPT !.audio_buffer = EmptyArray]

(***************************************************************************)
(* SileroVADProcessor                                                      *)
(***************************************************************************)
\* SileroVADProcessor.__init__: the hysteresis state
VadProcessorInit ==
    [is_speaking |-> FALSE, speech_frames |-> 0, silence_frames |-> 0]

\* self.model(audio_tensor, self.sample_rate).item(): the external scorer, a
\* pure function of the frame; here the mean level of the frame
Score(frame) == SumSeq(frame) \div Len(frame)

\* a hysteresis that wants more than the minimum speech duration
_apply_hysteresis_StrictMin(vp, confidence, chunk_size) ==
    IF confidence > speech_threshold
    THEN LET speech == vp.speech_frames + chunk_size
             counted == [vp EXCEPT !.speech_frames = speech,
                                   !.silence_frames = 0]
         IN  IF ~vp.is_speaking
                /\ speech > min_speech_duration_ms * frames_per_ms
             THEN [event |-> "speech_start",
                   vp |-> [counted EXCEPT !.is_speaking = TRUE]]
             ELSE [event |-> "None", vp |-> counted]
    ELSE IF confidence < silence_threshold
    THEN LET silence == vp.silence_frames + chunk_size
             counted == [vp EXCEPT !.silence_frames = silence,
                                   !.speech_frames = 0]
         IN  IF vp.is_speaking
                /\ silence >= min_silence_duration_ms * frames_per_ms
             THEN [event |-> "speech_end",
                   vp |-> [counted EXCEPT !.is_speaking = FALSE]]
             ELSE [event |-> "None", vp |-> counted]
    ELSE [event |-> "None", vp |-> vp]

\* a hysteresis whose dead zone leaves out its two ends
_apply_hysteresis_OpenZone(vp, confidence, chunk_size) ==
    IF confidence >= speech_threshold
    THEN LET speech == vp.speech_frames + chunk_size
             counted == [vp EXCEPT !.speech_frames = speech,
                                   !.silence_frames = 0]
         IN  IF ~vp.is_speaking
                /\ speech >= min_speech_duration_ms * frames_per_ms
             THEN [event |-> "speech_start",
                   vp |-> [counted EXCEPT !.is_speaking = TRUE]]
             ELSE [event |-> "None", vp |-> counted]
    ELSE IF confidence <= silence_threshold
    THEN LET silence == vp.silence_frames + chunk_size
             counted == [vp EXCEPT !.silence_frames = silence,
                                   !.speech_frames = 0]
         IN  IF vp.is_speaking
                /\ silence >= min_silence_duration_ms * frames_per_ms
             THEN [event |-> "speech_end",
                   vp |-> [counted EXCEPT !.is_speaking = FALSE]]
             ELSE [event |-> "None", vp |-> counted]
    ELSE [event |-> "None", vp |-> vp]

\* a hysteresis that ends speech at the first silent frame
_apply_hysteresis_EagerEnd(vp, confidence, chunk_size) ==
    IF confidence > speech_threshold
    THEN LET speech == vp.speech_frames + chunk_size
             counted == [vp EXCEPT !.speech_frames = speech,
                                   !.silence_frames = 0]
         IN  IF ~vp.is_speaking
                /\ speech >= min_speech_duration_ms * frames_per_ms
             THEN [event |-> "speech_start",
                   vp |-> [counted EXCEPT !.is_speaking = TRUE]]
             ELSE [event |-> "None", vp |-> counted]
    ELSE IF confidence < silence_threshold
    THEN LET silence == vp.silence_frames + chunk_size
             counted == [vp EXCEPT !.silence_frames = silence,
                                   !.speech_frames = 0]
         IN  IF vp.is_speaking
             THEN [event |-> "speech_end",
                   vp |-> [counted EXCEPT !.is_speaking = FALSE]]
             ELSE [event |-> "None", vp |-> counted]
    ELSE [event |-> "None", vp |-> vp]

\* a hysteresis whose branches leave the other run's counter alone
_apply_hysteresis_KeepsRuns(vp, confidence, chunk_size) ==
    IF confidence > speech_threshold
    THEN LET speech == vp.speech_frames + chunk_size
             counted == [vp EXCEPT !.speech_frames = speech]
         IN  IF ~vp.is_speaking
                /\ speech >= min_speech_duration_ms * frames_per_ms
             THEN [event |-> "speech_start",
                   vp |-> [counted EXCEPT !.is_speaking = TRUE]]
             ELSE [event |-> "None", vp |-> counted]
    ELSE IF confidence < silence_threshold
    THEN LET silence == vp.silence_frames + chunk_size
             counted == [vp EXCEPT !.silence_frames = silence]
         IN  IF vp.is_speaking
                /\ silence >= min_silence_duration_ms * frames_per_ms
             THEN [event |-> "speech_end",
                   vp |-> [counted EXCEPT !.is_speaking = FALSE]]
             ELSE [event |-> "None", vp |-> counted]
    ELSE [event |-> "None", vp |-> vp]

\* a hysteresis that takes a frame at the speech threshold for speech
_apply_hysteresis_AtThreshold(vp, confidence, chunk_size) ==
    IF confidence >= speech_threshold
    THEN LET speech == vp.speech_frames + chunk_size
             counted == [vp EXCEPT !.speech_frames = speech,
                                   !.silence_frames = 0]
         IN  IF ~vp.is_speaking
                /\ speech >= min_speech_duration_ms * frames_per_ms
             THEN [event |-> "speech_start",
                   vp |-> [counted EXCEPT !.is_speaking = TRUE]]
             ELSE [event |-> "None", vp |-> counted]
    ELSE IF confidence < silence_threshold
    THEN LET silence == vp.silence_frames + chunk_size
             counted == [vp EXCEPT !.silence_frames = silence,
                                   !.speech_frames = 0]
         IN  IF vp.is_speaking
                /\ silence >= min_silence_duration_ms * frames_per_ms
             THEN [event |-> "speech_end",
                   vp |-> [counted EXCEPT !.is_speaking = FALSE]]
             ELSE [event |-> "None", vp |-> counted]
    ELSE [event |-> "None", vp |-> vp]

\* SileroVADProcessor._apply_hysteresis: the event and the new state
_apply_hysteresis(vp, confidence, chunk_size) ==
    LET chunk_duration_samples == chunk_size
    IN  IF confidence > speech_threshold
        THEN LET speech == vp.speech_frames + chunk_duration_samples
                 min_speech_samples == min_speech_duration_ms * frames_per_ms
                 counted == [vp EXCEPT !.speech_frames = speech,
                                       !.silence_frames = 0]
             IN  IF ~vp.is_speaking /\ speech >= min_speech_samples
                 THEN [event |-> "speech_start",
                       vp |-> [counted EXCEPT !.is_speaking = TRUE]]
                 ELSE [event |-> "None", vp |-> counted]
        ELSE IF confidence < silence_threshold
        THEN LET silence == vp.silence_frames + chunk_duration_samples
                 min_silence_samples == min_silence_duration_ms * frames_per_ms
                 counted == [vp EXCEPT !.silence_frames = silence,
                                       !.speech_frames = 0]
             IN  IF vp.is_speaking /\ silence >= min_silence_samples
                 THEN [event |-> "speech_end",
                       vp |-> [counted EXCEPT !.is_speaking = FALSE]]
                 ELSE [event |-> "None", vp |-> counted]
        ELSE [event |-> "None", vp |-> vp]

\* SileroVADProcessor.process_audio_chunk with a loaded model
process_audio_chunk(vp, audio_chunk) ==
    LET confidence == Score(audio_chunk)
        h == _apply_hysteresis(vp, confidence, Len(audio_chunk))
    IN  [event |-> h.event, confidence |-> confidence, vp |-> h.vp]

\* a reset_state that clears the counters only
reset_state_KeepsSpeaking(vp) ==
    [vp EXCEPT !.speech_frames = 0, !.silence_frames = 0]

\* SileroVADProcessor.reset_state
reset_state(vp) ==
    [vp EXCEPT !.is_speaking = FALSE, !.speech_frames = 0,
               !.silence_frames = 0]

(***************************************************************************)
(* VADService                                                              *)
(***************************************************************************)
\* VADService.__init__
VADServiceInit ==
    [vad_processor |-> VadProcessorInit, audio_buffer |-> EmptyArray]

\* a process_audio that keeps nothing of the buffer once a frame is taken
TakeFrame_DropsRemainder(vs, audio_chunk) ==
    LET buf == vs.audio_buffer \o audio_chunk
    IN  IF Len(buf) >= VAD_CHUNK_SIZE
        THEN [vad_chunk |-> SubSeq(buf, 1, VAD_CHUNK_SIZE),
              vs |-> [vs EXCEPT !.audio_buffer = EmptyArray]]
        ELSE [vad_chunk |-> EmptyArray,
              vs |-> [vs EXCEPT !.audio_buffer = buf]]

\* a process_audio that hands the scorer all it has buffered
TakeFrame_WholeBuffer(vs, audio_chunk) ==
    LET buf == vs.audio_buffer \o audio_chunk
    IN  IF Len(buf) >= VAD_CHUNK_SIZE
        THEN [vad_chunk |-> buf,
              vs |-> [vs EXCEPT !.audio_buffer = EmptyArray]]
        ELSE [vad_chunk |-> EmptyArray,
              vs |-> [vs EXCEPT !.audio_buffer = buf]]

\* VADService.process_audio up to the await: the frame handed to the worker
\* thread (the empty array when the call only buffers) and the new buffer
TakeFrame(vs, audio_chunk) ==
    LET buf == vs.audio_buffer \o audio_chunk
    IN  IF Len(buf) >= VAD_CHUNK_SIZE
        THEN [vad_chunk |-> SubSeq(buf, 1, VAD_CHUNK_SIZE),
              vs |-> [vs EXCEPT !.audio_buffer =
                                   SubSeq(buf, VAD_CHUNK_SIZE + 1, Len(buf))]]
        ELSE [vad_chunk |-> EmptyArray,
              vs |-> [vs EXCEPT !.audio_buffer = buf]]

\* a failure that is scored as confidence 0.0 and put through the hysteresis
process_audio_except_ScoredZero(vp, vad_chunk) ==
    LET h == _apply_hysteresis(vp, 0, Len(vad_chunk))
    IN  [event |-> h.event, confidence |-> 0, vp |-> h.vp]

\* VADService.process_audio's except clause, reached when the scorer call
\* raises before the hysteresis ran: VADResult(event=None, confidence=0.0),
\* the hysteresis state as it was
process_audio_except(vp, vad_chunk) ==
    [event |-> "None", confidence |-> 0, vp |-> vp]

\* VADService.reset
VADServiceReset(vs) ==
    [vs EXCEPT !.vad_processor = reset_state(vs.vad_processor),
               !.audio_buffer = EmptyArray]

(***************************************************************************)
(* AudioSession                                                            *)
(***************************************************************************)
\* AudioSession.__init__
AudioSessionInit ==
    [audio_service |-> AudioServiceInit, vad_service |-> VADServiceInit]

\* a reset that leaves the resampler's remainder in place
AudioSessionReset_KeepsRemainder(s) ==
    [s EXCEPT !.vad_service = VADServiceReset(s.vad_service)]

\* AudioSession.reset
AudioSessionReset(s) ==
    [s EXCEPT !.audio_service = AudioServiceReset(s.audio_service),
              !.vad_service = VADServiceReset(s.vad_service)]

(***************************************************************************)
(* Inbound text frames (api/websocket.py, models/messages.py)              *)
(***************************************************************************)
\* base64 data the decoder cannot turn into samples (decode_opus -> None)
Undecodable == <<-1>>

\* json.loads(data) and the pydantic models, by what they accept: a text
\* frame is malformed JSON, or a JSON object with a type and maybe a data
\* field holding what the decoder will make of it
TextFrames ==
    {[json |-> FALSE, type |-> "", has_data |-> FALSE, data |-> EmptyArray]}
    \cup {[json |-> TRUE, type |-> t, has_data |-> FALSE, data |-> EmptyArray] :
            t \in {"audio_chunk", "reset", "test", "bogus"}}
    \cup {[json |-> TRUE, type |-> "audio_chunk", has_data |-> TRUE, data |-> d] :
            d \in PcmChunks \cup {Undecodable}}

\* websocket_endpoint's routing of one text frame: the handler it reaches,
\* "dropped" when json.loads or the message model raises or the type is
\* unknown, "logged" for the test message
Route(frame) ==
    IF ~frame.json THEN "dropped"
    ELSE IF frame.type = "audio_chunk"
         THEN IF frame.has_data THEN "handle_audio_chunk" ELSE "dropped"
    ELSE IF frame.type = "reset" THEN "handle_reset"
    ELSE IF frame.type = "test" THEN "logged"
    ELSE "dropped"

\* a decoder that returns a sample of silence for what it cannot parse
decode_opus_Silence(opus_data) ==
    IF opus_data = Undecodable THEN <<SILENCE>> ELSE opus_data

\* AudioService.decode_opus: the PCM array, or None (the empty array here)
decode_opus(opus_data) ==
    IF opus_data = Undecodable THEN EmptyArray ELSE opus_data

\* what becomes of a received text frame: the handler it reaches, or, for an
\* audio chunk the decoder cannot parse, "decode_failed"
Fate(frame) ==
    IF Route(frame) = "handle_audio_chunk" /\ frame.data = Undecodable
    THEN "decode_failed"
    ELSE Route(frame)

(***************************************************************************)
(* State                                                                   *)
(***************************************************************************)
VARIABLES
    heap,             \* the AudioSession objects ever constructed, by id
    active_sessions,  \* ConnectionService.active_sessions: websocket -> id
    pc,               \* where each connection's websocket_endpoint stands
    session,          \* websocket_endpoint's local session (0: none yet)
    result,           \* the VADResult a handler holds after the await
    thread_pool,      \* asyncio.to_thread calls in flight
    sent,             \* the messages sent to each websocket, in order
    budget,           \* the text frames each client has yet to send
    chunks,           \* history: chunks resampled since construction or reset
    out16,            \* history: samples the resampler returned since then
    results,          \* history: what each of those chunks came to
    reset_from,       \* history: the session as its last reset found it
    inbound,          \* history: what became of each received frame
    health_sessions   \* api/health.py's connection_service.active_sessions

vars == <<heap, active_sessions, pc, session, result, thread_pool, sent,
          budget, chunks, out16, results, reset_from, inbound,
          health_sessions>>

\* VADResult(event=None, confidence=0.0)
NoResult == [event |-> "None", confidence |-> 0]

Init ==
    /\ heap = <<>>
    /\ active_sessions = <<>>
    /\ pc = [c \in Conns |-> "connect"]
    /\ session = [c \in Conns |-> 0]
    /\ result = [c \in Conns |-> NoResult]
    /\ thread_pool = {}
    /\ sent = [c \in Conns |-> <<>>]
    /\ budget = [c \in Conns |-> MaxDuoMsgs]
    /\ chunks = [c \in Conns |-> <<>>]
    /\ out16 = [c \in Conns |-> <<>>]
    /\ results = [c \in Conns |-> <<>>]
    /\ reset_from = [c \in Conns |-> <<>>]
    /\ inbound = [c \in Conns |-> <<>>]
    /\ health_sessions = <<>>

\* the dict with key ws bound to value v
DictSet(d, ws, v) ==
    [k \in (DOMAIN d) \cup {ws} |-> IF k = ws THEN v ELSE d[k]]

\* del d[ws]
DictDel(d, ws) == [k \in (DOMAIN d) \ {ws} |-> d[k]]

\* what one chunk came to: the frame scored (empty: none), whether the scorer
\* raised, and the VADResult (NoResult when process_audio was not reached)
Outcome(vad_chunk, raised, event, confidence) ==
    [vad_chunk |-> vad_chunk, raised |-> raised, event |-> event,
     confidence |-> confidence]

(***************************************************************************)
(* ConnectionService and websocket_endpoint                                *)
(***************************************************************************)
\* a lookup that trusts the session the endpoint was given by connect
active_sessions_get_Local(ws) == session[ws]

\* self.active_sessions.get(websocket): the session, or None (0 here)
active_sessions_get(ws) ==
    IF ws \in DOMAIN active_sessions THEN active_sessions[ws] ELSE 0

\* a connect that registers the session object constructed last, when there
\* is one
NewSessionId_Shared == IF heap = <<>> THEN Len(heap) + 1 ELSE Len(heap)

\* the session object ConnectionService.connect registers: a new one
NewSessionId == Len(heap) + 1

\* ConnectionService.connect: accept, construct a session, register it
connect(ws) ==
    /\ pc[ws] = "connect"
    /\ UNCHANGED health_sessions
    /\ heap' = Append(heap, AudioSessionInit)
    /\ active_sessions' = DictSet(active_sessions, ws, NewSessionId)
    /\ session' = [session EXCEPT ![ws] = NewSessionId]
    /\ pc' = [pc EXCEPT ![ws] = "receive"]
    /\ UNCHANGED <<result, thread_pool, sent, budget, chunks, out16, results,
                   reset_from, inbound>>

\* an endpoint that its disconnect also ends while it awaits the scorer or
\* is about to send
DisconnectPoints_Any == {"receive", "to_thread", "resume"}

\* the point of websocket_endpoint at which the transport's disconnect is
\* raised: receive_text
DisconnectPoints == {"receive"}

\* receive_text raises WebSocketDisconnect; the finally clause runs
\* ConnectionService.disconnect
disconnect(ws) ==
    /\ pc[ws] \in DisconnectPoints
    /\ UNCHANGED health_sessions
    /\ active_sessions' = IF ws \in DOMAIN active_sessions
                          THEN DictDel(active_sessions, ws)
                          ELSE active_sessions
    /\ pc' = [pc EXCEPT ![ws] = "closed"]
    /\ UNCHANGED <<heap, session, result, thread_pool, sent, budget, chunks,
                   out16, results, reset_from, inbound>>

\* what routing a text frame that reaches no handler raises: json.loads
\* raises JSONDecodeError, the message model raises ValidationError, the test
\* message and the unknown type raise nothing
Raised(frame) ==
    IF ~frame.json THEN "JSONDecodeError"
    ELSE IF frame.type \in {"audio_chunk", "reset"} THEN "ValidationError"
    ELSE "none"

\* a receive loop that catches only json.loads' error
CaughtInLoop_JsonOnly(exc) == exc = "JSONDecodeError"

\* the exceptions the except clauses inside the receive loop catch
CaughtInLoop(exc) ==
    exc \in {"JSONDecodeError", "ValidationError", "Exception"}

\* a text frame that reaches no handler: logged, and the loop receives again;
\* an exception the loop did not catch would end the endpoint through its
\* finally clause
drop_message(ws, frame) ==
    /\ pc[ws] = "receive"
    /\ UNCHANGED health_sessions
    /\ budget[ws] > 0
    /\ Route(frame) \in {"dropped", "logged"}
    /\ budget' = [budget EXCEPT ![ws] = @ - 1]
    /\ inbound' = [inbound EXCEPT ![ws] = Append(@, Fate(frame))]
    /\ IF Raised(frame) = "none" \/ CaughtInLoop(Raised(frame))
       THEN UNCHANGED <<pc, active_sessions>>
       ELSE /\ pc' = [pc EXCEPT ![ws] = "closed"]
            /\ active_sessions' = IF ws \in DOMAIN active_sessions
                                  THEN DictDel(active_sessions, ws)
                                  ELSE active_sessions
    /\ UNCHANGED <<heap, session, result, thread_pool, sent, chunks, out16,
                   results, reset_from>>

\* an endpoint that does not await the call it hands to the thread
AfterToThread_NotAwaited == "receive"

\* where the endpoint stands once asyncio.to_thread has been called: the
\* call is awaited
AfterToThread == "to_thread"

\* ConnectionService.handle_audio_chunk up to its first suspension:
\* decode, resample, buffer, and hand one frame to a worker thread
handle_audio_chunk(ws, frame) ==
    /\ pc[ws] = "receive"
    /\ UNCHANGED health_sessions
    /\ budget[ws] > 0
    /\ Route(frame) = "handle_audio_chunk"
    /\ budget' = [budget EXCEPT ![ws] = @ - 1]
    /\ inbound' = [inbound EXCEPT ![ws] = Append(@, Fate(frame))]
    /\ IF active_sessions_get(ws) = 0
       THEN UNCHANGED <<heap, pc, thread_pool, chunks, out16, results>>
       ELSE LET id == active_sessions_get(ws)
                audio_24k == decode_opus(frame.data)
                r == resample_24k_to_16k(heap[id].audio_service, audio_24k)
                t == TakeFrame(heap[id].vad_service, r.resampled)
            IN  IF audio_24k = EmptyArray
                THEN UNCHANGED <<heap, pc, thread_pool, chunks, out16, results>>
                ELSE /\ chunks' = [chunks EXCEPT ![ws] = Append(@, audio_24k)]
                     /\ out16' = [out16 EXCEPT ![ws] = @ \o r.resampled]
                     /\ IF r.resampled = EmptyArray
                        THEN /\ heap' = [heap EXCEPT
                                   ![id].audio_service = r.svc]
                             /\ results' = [results EXCEPT ![ws] = Append(@,
                                   Outcome(EmptyArray, FALSE, "None", 0))]
                             /\ UNCHANGED <<pc, thread_pool>>
                        ELSE /\ heap' = [heap EXCEPT
                                   ![id].audio_service = r.svc,
                                   ![id].vad_service = t.vs]
                             /\ IF t.vad_chunk = EmptyArray
                                THEN /\ results' = [results EXCEPT ![ws] =
                                          Append(@, Outcome(EmptyArray, FALSE,
                                                            "None", 0))]
                                     /\ UNCHANGED <<pc, thread_pool>>
                                ELSE /\ thread_pool' = thread_pool \cup
                                          {[ws |-> ws, session |-> id,
                                            vad_chunk |-> t.vad_chunk]}
                                     /\ pc' = [pc EXCEPT ![ws] = AfterToThread]
                                     /\ UNCHANGED results
    /\ UNCHANGED <<active_sessions, session, result, sent, reset_from>>

\* the worker thread: SileroVADProcessor.process_audio_chunk on the frame;
\* the scorer returns, or it raises and VADService.process_audio fails open
worker_thread(job, raises) ==
    /\ job \in thread_pool
    /\ UNCHANGED health_sessions
    /\ thread_pool' = thread_pool \ {job}
    /\ LET vp == heap[job.session].vad_service.vad_processor
           r == IF raises THEN process_audio_except(vp, job.vad_chunk)
                ELSE process_audio_chunk(vp, job.vad_chunk)
       IN  /\ heap' = [heap EXCEPT
                 ![job.session].vad_service.vad_processor = r.vp]
           /\ result' = [result EXCEPT ![job.ws] =
                 [event |-> r.event, confidence |-> r.confidence]]
           /\ results' = [results EXCEPT ![job.ws] = Append(@,
                 Outcome(job.vad_chunk, raises, r.event, r.confidence))]
    /\ pc' = [pc EXCEPT ![job.ws] = "resume"]
    /\ UNCHANGED <<active_sessions, session, sent, budget, chunks, out16,
                   reset_from, inbound>>

\* a handler that reports the confidence only of frames without an event
VadMessages_EventOrConfidence(event, confidence, is_speaking) ==
    IF event # "None"
    THEN <<[type |-> "vad_event", event |-> event,
            confidence |-> confidence, is_speaking |-> FALSE]>>
    ELSE IF confidence > CONFIDENCE_FLOOR
    THEN <<[type |-> "vad_confidence", event |-> "None",
            confidence |-> confidence, is_speaking |-> is_speaking]>>
    ELSE <<>>

\* the messages handle_audio_chunk sends once process_audio has returned
VadMessages(event, confidence, is_speaking) ==
    (IF event # "None"
     THEN <<[type |-> "vad_event", event |-> event,
             confidence |-> confidence, is_speaking |-> FALSE]>>
     ELSE <<>>)
    \o
    (IF confidence > CONFIDENCE_FLOOR
     THEN <<[type |-> "vad_confidence", event |-> "None",
             confidence |-> confidence, is_speaking |-> is_speaking]>>
     ELSE <<>>)

\* handle_audio_chunk after the await: send the event and the confidence
send_results(ws) ==
    /\ pc[ws] = "resume"
    /\ UNCHANGED health_sessions
    /\ sent' = [sent EXCEPT ![ws] = @ \o
          VadMessages(result[ws].event, result[ws].confidence,
              heap[session[ws]].vad_service.vad_processor.is_speaking)]
    /\ pc' = [pc EXCEPT ![ws] = "receive"]
    /\ result' = [result EXCEPT ![ws] = NoResult]
    /\ UNCHANGED <<heap, active_sessions, session, thread_pool, budget, chunks,
                   out16, results, reset_from, inbound>>

ResetComplete ==
    [type |-> "reset_complete", event |-> "None", confidence |-> 0,
     is_speaking |-> FALSE]

\* a reset that reaches every session, as state kept on the class would
ResetTargets_All(id) == 1..Len(heap)

\* the sessions a reset of the session with this id resets: that one
ResetTargets(id) == {id}

\* ConnectionService.handle_reset: reset the session, send reset_complete
handle_reset(ws, frame) ==
    /\ pc[ws] = "receive"
    /\ UNCHANGED health_sessions
    /\ budget[ws] > 0
    /\ Route(frame) = "handle_reset"
    /\ budget' = [budget EXCEPT ![ws] = @ - 1]
    /\ inbound' = [inbound EXCEPT ![ws] = Append(@, Fate(frame))]
    /\ IF active_sessions_get(ws) = 0
       THEN UNCHANGED <<heap, sent, chunks, out16, results, reset_from>>
       ELSE /\ heap' = [i \in 1..Len(heap) |->
                          IF i \in ResetTargets(active_sessions_get(ws))
                          THEN AudioSessionReset(heap[i]) ELSE heap[i]]
            /\ sent' = [sent EXCEPT ![ws] = Append(@, ResetComplete)]
            /\ chunks' = [chunks EXCEPT ![ws] = <<>>]
            /\ out16' = [out16 EXCEPT ![ws] = <<>>]
            /\ results' = [results EXCEPT ![ws] = <<>>]
            /\ reset_from' = [reset_from EXCEPT ![ws] =
                                <<heap[active_sessions_get(ws)]>>]
    /\ UNCHANGED <<active_sessions, pc, session, result, thread_pool>>

\* ConnectionService.connect called by a caller that holds the websocket,
\* whether or not it is registered: a new session takes the entry
service_connect(ws) ==
    /\ pc[ws] = "receive"
    /\ UNCHANGED health_sessions
    /\ budget[ws] > 0
    /\ budget' = [budget EXCEPT ![ws] = @ - 1]
    /\ inbound' = [inbound EXCEPT ![ws] = Append(@, "connect")]
    /\ heap' = Append(heap, AudioSessionInit)
    /\ active_sessions' = DictSet(active_sessions, ws, NewSessionId)
    /\ session' = [session EXCEPT ![ws] = NewSessionId]
    /\ chunks' = [chunks EXCEPT ![ws] = <<>>]
    /\ out16' = [out16 EXCEPT ![ws] = <<>>]
    /\ results' = [results EXCEPT ![ws] = <<>>]
    /\ reset_from' = [reset_from EXCEPT ![ws] = <<>>]
    /\ UNCHANGED <<pc, result, thread_pool, sent>>

\* ConnectionService.disconnect called by a caller that holds the websocket,
\* whether or not it is registered
service_disconnect(ws) ==
    /\ pc[ws] = "receive"
    /\ UNCHANGED health_sessions
    /\ budget[ws] > 0
    /\ budget' = [budget EXCEPT ![ws] = @ - 1]
    /\ inbound' = [inbound EXCEPT ![ws] = Append(@, "disconnect")]
    /\ active_sessions' = IF ws \in DOMAIN active_sessions
                          THEN DictDel(active_sessions, ws)
                          ELSE active_sessions
    /\ UNCHANGED <<heap, pc, session, result, thread_pool, sent, chunks, out16,
                   results, reset_from>>

\* ConnectionService.connection_count of a service with these sessions
connection_count(sessions) == Cardinality(DOMAIN sessions)

\* GET /: the body root returns
root ==
    [status |-> "running",
     active_connections |-> connection_count(health_sessions)]

\* GET /health: the body health_check returns
health_check ==
    [status |-> "healthy",
     active_connections |-> connection_count(health_sessions)]

\* the text frames of the two clients of Spec: every kind of frame, the audio
\* being whole chunks of tone
DuoFrames ==
    {f \in TextFrames :
        f.has_data => f.data \in {Uniform(TONE, MaxChunkLen), Undecodable}}

\* two clients, connected at the same time, each sending a few frames
Next ==
    \/ \E ws \in Conns : connect(ws)
    \/ \E ws \in Conns : disconnect(ws)
    \/ \E ws \in Conns, frame \in DuoFrames : drop_message(ws, frame)
    \/ \E ws \in Conns, frame \in DuoFrames : handle_audio_chunk(ws, frame)
    \/ \E ws \in Conns, frame \in DuoFrames : handle_reset(ws, frame)
    \/ \E job \in thread_pool, raises \in BOOLEAN : worker_thread(job, raises)
    \/ \E ws \in Conns : send_results(ws)

Spec == Init /\ [][Next]_vars

\* the text frames of the client of SpecSolo: the well-formed ones, with
\* every chunk
SoloFrames ==
    {f \in TextFrames : Route(f) \in {"handle_audio_chunk", "handle_reset"}}

\* one client sending resets and every chunk, with a scorer that does not
\* fail; the other client's connection is over before the run begins
InitSolo ==
    /\ heap = <<>>
    /\ active_sessions = <<>>
    /\ pc = [c \in Conns |-> IF c = "A" THEN "connect" ELSE "closed"]
    /\ session = [c \in Conns |-> 0]
    /\ result = [c \in Conns |-> NoResult]
    /\ thread_pool = {}
    /\ sent = [c \in Conns |-> <<>>]
    /\ budget = [c \in Conns |-> IF c = "A" THEN MaxMsgs ELSE 0]
    /\ chunks = [c \in Conns |-> <<>>]
    /\ out16 = [c \in Conns |-> <<>>]
    /\ results = [c \in Conns |-> <<>>]
    /\ reset_from = [c \in Conns |-> <<>>]
    /\ inbound = [c \in Conns |-> <<>>]
    /\ health_sessions = <<>>

NextSolo ==
    \/ \E ws \in Conns : connect(ws)
    \/ \E ws \in Conns : disconnect(ws)
    \/ \E ws \in Conns, frame \in SoloFrames : handle_audio_chunk(ws, frame)
    \/ \E ws \in Conns, frame \in SoloFrames : handle_reset(ws, frame)
    \/ \E job \in thread_pool : worker_thread(job, FALSE)
    \/ \E ws \in Conns : send_results(ws)

SpecSolo == InitSolo /\ [][NextSolo]_vars

\* the audio of the end-to-end scenario
Scenario ==
    Uniform(SILENCE, LeadSamples) \o Uniform(TONE, ToneSamples)
        \o Uniform(SILENCE, TrailSamples)

\* the chunk sizes a client of the scenario picks from for a phase of it; a
\* larger size stands for the whole phase in one chunk
ScenarioLens == {1, 2, 3, 4, ToneSamples + TrailSamples}

\* the number of chunks that carry the first n samples of a connection's
\* history (0 when no whole number of them does)
ChunksFor(ws, n) ==
    LET ks == {k \in 0..Len(chunks[ws]) :
                  Len(Concat(SubSeq(chunks[ws], 1, k))) = n}
    IN  IF ks = {} THEN 0 ELSE CHOOSE k \in ks : TRUE

\* the text frames the client of the scenario can send next: the lead in one
\* chunk, then the tone and the trailing silence, each in chunks of one size
\* (the last chunk of a phase being what is left of it)
ScenarioFrames(ws) ==
    LET done == Len(Concat(chunks[ws]))
        phase_end == IF done < LeadSamples THEN LeadSamples
                     ELSE IF done < LeadSamples + ToneSamples
                     THEN LeadSamples + ToneSamples
                     ELSE Len(Scenario)
        phase_start == IF done < LeadSamples THEN 0
                       ELSE IF done < LeadSamples + ToneSamples
                       THEN LeadSamples
                       ELSE LeadSamples + ToneSamples
        sizes == IF done < LeadSamples THEN {LeadSamples}
                 ELSE IF done = phase_start THEN ScenarioLens
                 ELSE {Len(chunks[ws][ChunksFor(ws, phase_start) + 1])}
    IN  {[json |-> TRUE, type |-> "audio_chunk", has_data |-> TRUE,
          data |-> SubSeq(Scenario, done + 1, done + n)] :
            n \in {IF m < phase_end - done THEN m ELSE phase_end - done :
                     m \in sizes} \ {0}}

\* one client that delivers the scenario to a fresh session
InitScenario ==
    /\ heap = <<>>
    /\ active_sessions = <<>>
    /\ pc = [c \in Conns |-> IF c = "A" THEN "connect" ELSE "closed"]
    /\ session = [c \in Conns |-> 0]
    /\ result = [c \in Conns |-> NoResult]
    /\ thread_pool = {}
    /\ sent = [c \in Conns |-> <<>>]
    /\ budget = [c \in Conns |-> IF c = "A" THEN Len(Scenario) ELSE 0]
    /\ chunks = [c \in Conns |-> <<>>]
    /\ out16 = [c \in Conns |-> <<>>]
    /\ results = [c \in Conns |-> <<>>]
    /\ reset_from = [c \in Conns |-> <<>>]
    /\ inbound = [c \in Conns |-> <<>>]
    /\ health_sessions = <<>>

NextScenario ==
    \/ \E ws \in Conns : connect(ws)
    \/ \E ws \in Conns :
          \E frame \in ScenarioFrames(ws) : handle_audio_chunk(ws, frame)
    \/ \E job \in thread_pool : worker_thread(job, FALSE)
    \/ \E ws \in Conns : send_results(ws)

SpecScenario == InitScenario /\ [][NextScenario]_vars

\* the text frames of the client of SpecLong: audio chunks of every length up
\* to MaxLongLen
LongFrames ==
    {[json |-> TRUE, type |-> "audio_chunk", has_data |-> TRUE,
      data |-> Uniform(l, n)] : l \in Levels, n \in 1..MaxLongLen}

\* one client sending a few long chunks to a fresh session, with a scorer
\* that does not fail
InitLong ==
    /\ heap = <<>>
    /\ active_sessions = <<>>
    /\ pc = [c \in Conns |-> IF c = "A" THEN "connect" ELSE "closed"]
    /\ session = [c \in Conns |-> 0]
    /\ result = [c \in Conns |-> NoResult]
    /\ thread_pool = {}
    /\ sent = [c \in Conns |-> <<>>]
    /\ budget = [c \in Conns |-> IF c = "A" THEN MaxLongMsgs ELSE 0]
    /\ chunks = [c \in Conns |-> <<>>]
    /\ out16 = [c \in Conns |-> <<>>]
    /\ results = [c \in Conns |-> <<>>]
    /\ reset_from = [c \in Conns |-> <<>>]
    /\ inbound = [c \in Conns |-> <<>>]
    /\ health_sessions = <<>>

NextLong ==
    \/ \E ws \in Conns : connect(ws)
    \/ \E ws \in Conns : disconnect(ws)
    \/ \E ws \in Conns, frame \in LongFrames : handle_audio_chunk(ws, frame)
    \/ \E job \in thread_pool : worker_thread(job, FALSE)
    \/ \E ws \in Conns : send_results(ws)

SpecLong == InitLong /\ [][NextLong]_vars

\* the text frames of the client of SpecTalk: whole chunks of silence or of
\* tone, and resets
TalkFrames ==
    {f \in TextFrames :
        /\ Route(f) \in {"handle_audio_chunk", "handle_reset"}
        /\ f.has_data => f.data \in {Uniform(SILENCE, MaxChunkLen),
                                      Uniform(TONE, MaxChunkLen)}}

\* one client in a long exchange of tone and silence with resets, with a
\* scorer that does not fail
InitTalk ==
    /\ heap = <<>>
    /\ active_sessions = <<>>
    /\ pc = [c \in Conns |-> IF c = "A" THEN "connect" ELSE "closed"]
    /\ session = [c \in Conns |-> 0]
    /\ result = [c \in Conns |-> NoResult]
    /\ thread_pool = {}
    /\ sent = [c \in Conns |-> <<>>]
    /\ budget = [c \in Conns |-> IF c = "A" THEN MaxTalkMsgs ELSE 0]
    /\ chunks = [c \in Conns |-> <<>>]
    /\ out16 = [c \in Conns |-> <<>>]
    /\ results = [c \in Conns |-> <<>>]
    /\ reset_from = [c \in Conns |-> <<>>]
    /\ inbound = [c \in Conns |-> <<>>]
    /\ health_sessions = <<>>

NextTalk ==
    \/ \E ws \in Conns : connect(ws)
    \/ \E ws \in Conns, frame \in TalkFrames : handle_audio_chunk(ws, frame)
    \/ \E ws \in Conns, frame \in TalkFrames : handle_reset(ws, frame)
    \/ \E job \in thread_pool : worker_thread(job, FALSE)
    \/ \E ws \in Conns : send_results(ws)

SpecTalk == InitTalk /\ [][NextTalk]_vars

\* the messages the callers of SpecService pass to the handlers: a whole
\* chunk of tone, a reset
ServiceFrames ==
    {f \in TextFrames :
        /\ Route(f) \in {"handle_audio_chunk", "handle_reset"}
        /\ f.has_data => f.data = Uniform(TONE, MaxChunkLen)}

\* the ConnectionService on its own: two callers, each holding a websocket
\* and calling connect, disconnect and the handlers in any order, one call
\* at a time
InitService ==
    /\ heap = <<>>
    /\ active_sessions = <<>>
    /\ pc = [c \in Conns |-> "receive"]
    /\ session = [c \in Conns |-> 0]
    /\ result = [c \in Conns |-> NoResult]
    /\ thread_pool = {}
    /\ sent = [c \in Conns |-> <<>>]
    /\ budget = [c \in Conns |-> MaxCalls]
    /\ chunks = [c \in Conns |-> <<>>]
    /\ out16 = [c \in Conns |-> <<>>]
    /\ results = [c \in Conns |-> <<>>]
    /\ reset_from = [c \in Conns |-> <<>>]
    /\ inbound = [c \in Conns |-> <<>>]
    /\ health_sessions = <<>>

NextService ==
    \/ \E ws \in Conns : service_connect(ws)
    \/ \E ws \in Conns : service_disconnect(ws)
    \/ \E ws \in Conns, frame \in ServiceFrames : handle_audio_chunk(ws, frame)
    \/ \E ws \in Conns, frame \in ServiceFrames : handle_reset(ws, frame)
    \/ \E job \in thread_pool : worker_thread(job, FALSE)
    \/ \E ws \in Conns : send_results(ws)

SpecService == InitService /\ [][NextService]_vars

(***************************************************************************)
(* Properties                                                              *)
(***************************************************************************)
\* the frames scored for the chunks of a history, in order
FramesOf(rs) ==
    LET RECURSIVE Go(_)
        Go(r) == IF r = <<>> THEN <<>>
                 ELSE IF Head(r).vad_chunk = EmptyArray THEN Go(Tail(r))
                 ELSE <<Head(r).vad_chunk>> \o Go(Tail(r))
    IN  Go(rs)

\* no handler of the connection is between two of its steps
Quiet(c) == pc[c] \in {"receive", "closed"}

\* C1: resampler chunk-boundary invariance.  The samples the resampler has
\* returned over the calls made since the session was constructed or reset
\* are the samples one call on a fresh AudioService returns for the
\* concatenation of the chunks of those calls.
C1_ChunkBoundaryInvariance ==
    \A c \in Conns :
        out16[c] =
            resample_24k_to_16k(AudioServiceInit, Concat(chunks[c])).resampled

\* C2: frame accumulator chunking invariance.  The frames handed to the
\* scorer over the per-chunk calls of process_audio are the frames that one
\* call of process_audio on a fresh VADService hands to the scorer for the
\* whole 16 kHz sequence.
C2_FrameChunkingInvariance ==
    \A c \in Conns :
        Quiet(c) =>
            LET whole == TakeFrame(VADServiceInit, out16[c]).vad_chunk
            IN  FramesOf(results[c]) =
                    IF whole = EmptyArray THEN <<>> ELSE <<whole>>

\* handle_audio_chunk run to its end on a session that nothing else touches,
\* with a scorer that raises or not: the session afterwards and what the
\* chunk came to
Ingest(s, audio_24k, raises) ==
    LET r == resample_24k_to_16k(s.audio_service, audio_24k)
        t == TakeFrame(s.vad_service, r.resampled)
        p == IF raises THEN process_audio_except(t.vs.vad_processor, t.vad_chunk)
             ELSE process_audio_chunk(t.vs.vad_processor, t.vad_chunk)
    IN  IF r.resampled = EmptyArray
        THEN [session |-> [s EXCEPT !.audio_service = r.svc],
              outcome |-> Outcome(EmptyArray, FALSE, "None", 0)]
        ELSE IF t.vad_chunk = EmptyArray
        THEN [session |-> [audio_service |-> r.svc, vad_service |-> t.vs],
              outcome |-> Outcome(EmptyArray, FALSE, "None", 0)]
        ELSE [session |-> [audio_service |-> r.svc,
                           vad_service |-> [t.vs EXCEPT !.vad_processor = p.vp]],
              outcome |-> Outcome(t.vad_chunk, raises, p.event, p.confidence)]

RECURSIVE Fed(_, _, _, _)
\* a session fed a sequence of chunks, one handle_audio_chunk each, the
\* scorer raising where told: the session afterwards and what the chunks
\* came to
Fed(s, chs, raises, outcomes) ==
    IF chs = <<>> THEN [session |-> s, outcomes |-> outcomes]
    ELSE LET i == Ingest(s, Head(chs), Head(raises))
         IN  Fed(i.session, Tail(chs), Tail(raises), Append(outcomes, i.outcome))

\* a newly constructed session fed the chunks of a connection's history
\* alone, the scorer raising where it did
Alone(c) ==
    Fed(AudioSessionInit, chunks[c],
        [i \in 1..Len(chunks[c]) |-> results[c][i].raised], <<>>)

\* C3: reset equivalence.  A session that has been reset, whatever state the
\* reset found it in, and has then been fed a chunk sequence is in the state
\* of a newly constructed session fed that sequence, and the chunks came to
\* the same events and confidences.
C3_ResetEquivalence ==
    \A c \in Conns :
        (reset_from[c] # <<>> /\ Quiet(c)) =>
            LET fresh == Alone(c)
            IN  /\ heap[session[c]] = fresh.session
                /\ results[c] = fresh.outcomes

\* a reset that found the session speaking with samples in both buffers has
\* been followed by a chunk that was scored
C3_Witness ==
    \E c \in Conns :
        /\ reset_from[c] # <<>>
        /\ Quiet(c)
        /\ LET s == reset_from[c][1]
           IN  /\ s.vad_service.vad_processor.is_speaking
               /\ s.vad_service.vad_processor.speech_frames > 0
               /\ s.audio_service.audio_buffer # EmptyArray
               /\ s.vad_service.audio_buffer # EmptyArray
        /\ FramesOf(results[c]) # <<>>

\* the vad_event messages sent to a connection, by event, in order
EventsSent(c) ==
    LET RECURSIVE Go(_)
        Go(m) == IF m = <<>> THEN <<>>
                 ELSE IF Head(m).type = "vad_event"
                      THEN <<Head(m).event>> \o Go(Tail(m))
                      ELSE Go(Tail(m))
    IN  Go(sent[c])

\* C4: end-to-end scenario.  A fresh session fed the leading silence in one
\* chunk has emitted no event; once the tone has been delivered it has
\* emitted exactly one speech_start; once the trailing silence has been
\* delivered it has emitted exactly one speech_end after it, whatever the
\* sizes of the chunks.
C4_EndToEndScenario ==
    \A c \in Conns :
        LET done == Len(Concat(chunks[c]))
        IN  (Quiet(c) /\ Concat(chunks[c]) = SubSeq(Scenario, 1, done)) =>
               /\ done = LeadSamples => EventsSent(c) = <<>>
               /\ done = LeadSamples + ToneSamples =>
                     EventsSent(c) = <<"speech_start">>
               /\ done = Len(Scenario) =>
                     EventsSent(c) = <<"speech_start", "speech_end">>

\* what the chunks of a history that had a frame scored came to, in order
Scored(c) == SelectSeq(results[c], LAMBDA o : o.vad_chunk # EmptyArray)

\* the scorer put the frame above the speech threshold
IsSpeech(o) == ~o.raised /\ o.confidence > speech_threshold

\* the frame did not reach the hysteresis, or fell in its dead zone
IsDeadZone(o) ==
    /\ ~o.raised
    /\ o.confidence >= silence_threshold
    /\ o.confidence <= speech_threshold

\* the hysteresis state of a connection's session
Hysteresis(c) == heap[session[c]].vad_service.vad_processor

\* the samples of frames i..j of a history
SamplesOf(fr, i, j) == Len(Concat([k \in 1..(j - i + 1) |-> fr[i + k - 1].vad_chunk]))

\* C5: hysteresis debounce.  Over a run of consecutive frames above the
\* speech threshold that starts in the initial hysteresis state (the frames
\* scored since construction or reset, after any that left the state
\* untouched), speech_start is returned for the first frame at which the
\* run's samples reach min_speech_duration_ms * sample_rate / 1000 and for no
\* other frame of the run, and no other event is returned.
C5_Debounce ==
    \A c \in Conns :
        LET fr == Scored(c)
            first == CHOOSE i \in 1..(Len(fr) + 1) :
                        /\ \A k \in 1..(i - 1) : IsDeadZone(fr[k]) \/ fr[k].raised
                        /\ i <= Len(fr) => ~(IsDeadZone(fr[i]) \/ fr[i].raised)
            min_speech_samples == min_speech_duration_ms * frames_per_ms
        IN  \A j \in first..Len(fr) :
                (\A i \in first..j : IsSpeech(fr[i])) =>
                    fr[j].event =
                        IF /\ SamplesOf(fr, first, j) >= min_speech_samples
                           /\ SamplesOf(fr, first, j - 1) < min_speech_samples
                        THEN "speech_start" ELSE "None"

\* a run of three frames of speech from the initial state: no event for the
\* first, speech_start within the run, no event for a later frame
C5_Witness ==
    \E c \in Conns :
        LET fr == Scored(c)
        IN  /\ Len(fr) >= 3
            /\ \A i \in 1..Len(fr) : IsSpeech(fr[i])
            /\ fr[1].event = "None"
            /\ \E j \in 2..(Len(fr) - 1) : fr[j].event = "speech_start"
            /\ fr[Len(fr)].event = "None"

\* C6: hysteresis dead zone.  From any hysteresis state, a frame whose
\* confidence c has silence_threshold <= c <= speech_threshold leaves
\* is_speaking, speech_frames and silence_frames as they were and returns no
\* event; so does any sequence of such frames.
C6_DeadZone ==
    [][\A c \in Conns :
          (/\ Len(results'[c]) = Len(results[c]) + 1
           /\ results'[c][Len(results'[c])].vad_chunk # EmptyArray
           /\ IsDeadZone(results'[c][Len(results'[c])]))
          => /\ results'[c][Len(results'[c])].event = "None"
             /\ result'[c].event = "None"
             /\ Hysteresis(c)' = Hysteresis(c)]_vars

\* a frame at an end of the dead zone has been scored while the session was
\* speaking with a run of speech counted, and the state is as it was
C6_Witness ==
    \E c \in Conns :
        /\ pc[c] = "resume"
        /\ LET fr == Scored(c)
           IN  /\ Len(fr) >= 2
               /\ IsDeadZone(fr[Len(fr)])
               /\ fr[Len(fr)].confidence \in {silence_threshold, speech_threshold}
        /\ Hysteresis(c).is_speaking
        /\ Hysteresis(c).speech_frames > 0

\* the thread-pool calls in flight for a connection
JobsOf(c) == {j \in thread_pool : j.ws = c}

\* the step is one of connection a's endpoint
StepOf(a) == pc'[a] # pc[a] \/ budget'[a] # budget[a]

\* C7: no cross-session leakage.  With two sessions registered, a step of
\* one connection (handle_audio_chunk, handle_reset, disconnect, its scorer
\* call, its sends) leaves the other's session, results and messages as they
\* were, and under every interleaving a session is in the state, and its
\* chunks have come to the results, of a session fed its chunks alone.
C7_NoCrossSessionLeakage ==
    /\ [](\A b \in Conns :
            (Quiet(b) /\ session[b] # 0) =>
                /\ heap[session[b]] = Alone(b).session
                /\ results[b] = Alone(b).outcomes)
    /\ [][\A a \in Conns, b \in Conns :
            (a # b /\ StepOf(a) /\ session[b] # 0) =>
                /\ heap'[session[b]] = heap[session[b]]
                /\ results'[b] = results[b]
                /\ sent'[b] = sent[b]]_vars

\* one connection has been fed audio, reset and disconnected while the other
\* stays registered with a frame scored and samples in its buffers
C7_Witness ==
    \E a \in Conns, b \in Conns :
        /\ a # b
        /\ pc[a] = "closed"
        /\ reset_from[a] # <<>>
        /\ reset_from[a] # <<AudioSessionInit>>
        /\ b \in DOMAIN active_sessions
        /\ Scored(b) # <<>>
        /\ heap[session[b]].audio_service.audio_buffer # EmptyArray
        /\ Hysteresis(b) # VadProcessorInit

\* C8: per-session frame ordering.  A session has at most one scorer call in
\* flight; while it is in flight the endpoint awaits it, with the results of
\* the frames before it applied and their messages sent; and the frames are
\* scored in the order the frame buffer released them.
C8_FrameOrdering ==
    \A c \in Conns :
        /\ Cardinality(JobsOf(c)) <= 1
        /\ \A j \in JobsOf(c) :
              /\ pc[c] = "to_thread"
              /\ result[c] = NoResult
              /\ Concat(FramesOf(results[c])) \o j.vad_chunk =
                    SubSeq(out16[c], 1,
                           VAD_CHUNK_SIZE * (Len(FramesOf(results[c])) + 1))
        /\ JobsOf(c) = {} =>
              Concat(FramesOf(results[c])) =
                  SubSeq(out16[c], 1, VAD_CHUNK_SIZE * Len(FramesOf(results[c])))

\* both sessions have a scorer call in flight, one of them for its second
\* frame, the first frame's messages sent
C8_Witness ==
    \E a \in Conns, b \in Conns :
        /\ a # b
        /\ JobsOf(a) # {}
        /\ JobsOf(b) # {}
        /\ Len(FramesOf(results[a])) >= 1
        /\ sent[a] # <<>>

\* C9: no delivery or mutation after disconnect.  Once disconnect has run
\* for a connection, no scorer call of its session is in flight, no message
\* is sent to it, and its session is never changed again.
C9_NothingAfterDisconnect ==
    /\ [](\A c \in Conns : pc[c] = "closed" => JobsOf(c) = {})
    /\ [][\A c \in Conns :
            pc[c] = "closed" =>
                /\ pc'[c] = "closed"
                /\ sent'[c] = sent[c]
                /\ results'[c] = results[c]
                /\ session[c] # 0 => heap'[session[c]] = heap[session[c]]]_vars

\* a connection is closed after a scorer call of its session completed and
\* its messages were sent, while the other session has a call in flight
C9_Witness ==
    \E c \in Conns, d \in Conns :
        /\ pc[c] = "closed"
        /\ Scored(c) # <<>>
        /\ sent[c] # <<>>
        /\ JobsOf(d) # {}

\* the last element of a non-empty sequence
Last(q) == q[Len(q)]

\* C10: protocol violations do not end the session.  A text frame that is
\* malformed JSON, has an unknown type or fails schema validation changes
\* nothing of the session, sends nothing, leaves the session registered and
\* the endpoint receiving.
C10_ProtocolViolationsDropped ==
    [][\A c \in Conns :
          (/\ Len(inbound'[c]) = Len(inbound[c]) + 1
           /\ Last(inbound'[c]) = "dropped")
          => /\ heap' = heap
             /\ active_sessions' = active_sessions
             /\ pc'[c] = "receive"
             /\ sent' = sent
             /\ thread_pool' = thread_pool
             /\ results' = results]_vars

\* a registered connection sent a frame that was dropped and then an audio
\* chunk, which was scored and answered
C10_Witness ==
    \E c \in Conns :
        /\ inbound[c] = <<"dropped", "handle_audio_chunk">>
        /\ c \in DOMAIN active_sessions
        /\ pc[c] = "receive"
        /\ Scored(c) # <<>>
        /\ sent[c] # <<>>

\* C11: decode failure contributes nothing.  A handle_audio_chunk whose chunk
\* the decoder fails on leaves the resampler remainder, the frame buffer and
\* the hysteresis state as they were, starts no scorer call and sends no
\* message; the session stays registered with its endpoint receiving, and
\* its later chunks come to what they come to without the failed one.
C11_DecodeFailureContributesNothing ==
    /\ [](\A c \in Conns :
            (Quiet(c) /\ session[c] # 0
               /\ \E i \in 1..Len(inbound[c]) : inbound[c][i] = "decode_failed")
            => /\ heap[session[c]] = Alone(c).session
               /\ results[c] = Alone(c).outcomes)
    /\ [][\A c \in Conns :
            (/\ Len(inbound'[c]) = Len(inbound[c]) + 1
             /\ Last(inbound'[c]) = "decode_failed")
            => /\ heap' = heap
               /\ sent' = sent
               /\ thread_pool' = thread_pool
               /\ result' = result
               /\ active_sessions' = active_sessions
               /\ pc'[c] = "receive"]_vars

\* a session with a remainder in the resampler and a run of speech counted
\* had a chunk fail to decode, and the chunk after it was scored
C11_Witness ==
    \E c \in Conns :
        /\ inbound[c] = <<"handle_audio_chunk", "decode_failed",
                          "handle_audio_chunk">>
        /\ Quiet(c)
        /\ Len(Scored(c)) = 2
        /\ Scored(c)[1].confidence > speech_threshold
        /\ heap[session[c]].audio_service.audio_buffer # EmptyArray

\* C12: scorer failure is fail-open.  When the scorer call for a frame
\* raises, process_audio returns no event with confidence 0.0 and leaves the
\* hysteresis state (is_speaking and both counters) as it was; the handler
\* then sends nothing for the frame and the endpoint receives again; and the
\* session's later chunks are processed as by a session fed the same chunks
\* with the same failures.
C12_ScorerFailOpen ==
    /\ [](\A c \in Conns :
            (Quiet(c) /\ session[c] # 0
               /\ \E i \in 1..Len(results[c]) : results[c][i].raised)
            => /\ heap[session[c]] = Alone(c).session
               /\ results[c] = Alone(c).outcomes)
    /\ [][\A c \in Conns :
            /\ (/\ Len(results'[c]) = Len(results[c]) + 1
                 /\ Last(results'[c]).raised)
                => /\ result'[c] = NoResult
                   /\ Last(results'[c]).event = "None"
                   /\ Last(results'[c]).confidence = 0
                   /\ heap' = heap
                   /\ sent' = sent
                   /\ pc'[c] = "resume"
                   /\ c \in DOMAIN active_sessions'
            /\ (/\ pc[c] = "resume"
                 /\ results[c] # <<>>
                 /\ Last(results[c]).raised
                 /\ pc'[c] # pc[c])
                => /\ sent' = sent
                   /\ heap' = heap
                   /\ pc'[c] = "receive"]_vars

\* a session with a run of speech counted had the scorer raise on its next
\* frame: the run is as it was and the one message sent is the first frame's
C12_Witness ==
    \E c \in Conns :
        /\ Quiet(c)
        /\ Len(Scored(c)) = 2
        /\ IsSpeech(Scored(c)[1])
        /\ Scored(c)[2].raised
        /\ Hysteresis(c).speech_frames > 0
        /\ Len(sent[c]) = 1

\* C13: session not found is ignored.  handle_audio_chunk or handle_reset
\* for a connection with no entry in active_sessions returns with no message
\* sent, no session created, the registry and every session as they were,
\* and no scorer call started.
C13_SessionNotFoundIgnored ==
    [][\A c \in Conns :
          (/\ Len(inbound'[c]) = Len(inbound[c]) + 1
           /\ Last(inbound'[c]) \in {"handle_audio_chunk", "handle_reset"}
           /\ c \notin DOMAIN active_sessions)
          => /\ sent' = sent
             /\ heap' = heap
             /\ active_sessions' = active_sessions
             /\ thread_pool' = thread_pool
             /\ result' = result
             /\ pc'[c] = "receive"]_vars

\* a connection that was registered and then disconnected has had a handler
\* called for it, while the other connection's session is registered with a
\* frame scored
C13_Witness ==
    \E c \in Conns, d \in Conns :
        /\ c # d
        /\ Len(inbound[c]) >= 2
        /\ inbound[c][Len(inbound[c]) - 1] = "disconnect"
        /\ Last(inbound[c]) \in {"handle_audio_chunk", "handle_reset"}
        /\ session[c] # 0
        /\ d \in DOMAIN active_sessions
        /\ Scored(d) # <<>>

\* the last of connect and disconnect called for a connection ("none" when
\* neither has been)
LastCall(c) ==
    LET idx == {i \in 1..Len(inbound[c]) :
                   inbound[c][i] \in {"connect", "disconnect"}}
    IN  IF idx = {} THEN "none"
        ELSE inbound[c][CHOOSE i \in idx : \A j \in idx : j <= i]

\* C14: registry invariant.  After any sequence of connect and disconnect
\* calls active_sessions has exactly one entry for each connection whose last
\* such call was connect, and no two entries hold the same session; a
\* connect registers a session object that did not exist before, in the
\* initial state, and leaves the other entries and sessions as they were; a
\* disconnect removes the entry of its connection and nothing else, and
\* changes nothing when there is no such entry.
C14_RegistryInvariant ==
    /\ [](/\ DOMAIN active_sessions = {c \in Conns : LastCall(c) = "connect"}
          /\ \A a \in DOMAIN active_sessions :
                /\ active_sessions[a] \in 1..Len(heap)
                /\ \A b \in DOMAIN active_sessions :
                      a # b => active_sessions[a] # active_sessions[b])
    /\ [][\A c \in Conns :
            /\ (/\ Len(inbound'[c]) = Len(inbound[c]) + 1
                 /\ Last(inbound'[c]) = "connect")
                => /\ c \in DOMAIN active_sessions'
                   /\ active_sessions'[c] \notin 1..Len(heap)
                   /\ heap'[active_sessions'[c]] = AudioSessionInit
                   /\ SubSeq(heap', 1, Len(heap)) = heap
                   /\ DOMAIN active_sessions' = DOMAIN active_sessions \cup {c}
                   /\ \A d \in DOMAIN active_sessions \ {c} :
                         active_sessions'[d] = active_sessions[d]
            /\ (/\ Len(inbound'[c]) = Len(inbound[c]) + 1
                 /\ Last(inbound'[c]) = "disconnect")
                => /\ DOMAIN active_sessions' = DOMAIN active_sessions \ {c}
                   /\ \A d \in DOMAIN active_sessions' :
                         active_sessions'[d] = active_sessions[d]
                   /\ heap' = heap
                   /\ sent' = sent]_vars

\* one connection was registered, removed and registered again, the other
\* was registered after a disconnect that found no entry, and both entries
\* are there
C14_Witness ==
    \E c \in Conns, d \in Conns :
        /\ c # d
        /\ inbound[c] = <<"connect", "disconnect", "connect">>
        /\ Len(inbound[d]) >= 2
        /\ inbound[d][1] = "disconnect"
        /\ inbound[d][2] = "connect"
        /\ DOMAIN active_sessions = {c, d}
        /\ Len(heap) = 3

\* the connections the /ws endpoint has accepted and not yet disconnected
LiveConnections == {c \in Conns : pc[c] \in {"receive", "to_thread", "resume"}}

\* C15: health count.  At any time the active_connections value that GET /
\* and GET /health return is the number of live sessions: the connections
\* the /ws endpoint has accepted and not yet disconnected.
C15_HealthCount ==
    /\ root.active_connections = Cardinality(LiveConnections)
    /\ health_check.active_connections = Cardinality(LiveConnections)

\* the vad_confidence messages of a sequence of messages, in order
ConfidenceMessages(msgs) ==
    SelectSeq(msgs, LAMBDA m : m.type = "vad_confidence")

\* C16: confidence reporting.  For every frame scored with confidence > 0.1
\* the handler sends, after the frame's vad_event if it produced one, one
\* vad_confidence message with that confidence and the is_speaking value
\* the frame's update left; for a frame scored with confidence <= 0.1 and for
\* a call that scored no frame it sends no vad_confidence message.
C16_ConfidenceReporting ==
    [][\A c \in Conns :
          LET new == SubSeq(sent'[c], Len(sent[c]) + 1, Len(sent'[c]))
          IN  IF pc[c] = "resume" /\ pc'[c] # "resume"
              THEN LET o == Last(results[c])
                   IN  /\ o.vad_chunk # EmptyArray
                       /\ (o.event # "None") <=>
                             (new # <<>> /\ new[1].type = "vad_event"
                                /\ new[1].event = o.event)
                       /\ ConfidenceMessages(new) =
                             IF o.confidence > CONFIDENCE_FLOOR
                             THEN <<[type |-> "vad_confidence",
                                     event |-> "None",
                                     confidence |-> o.confidence,
                                     is_speaking |-> Hysteresis(c).is_speaking]>>
                             ELSE <<>>
                       /\ o.confidence > CONFIDENCE_FLOOR =>
                             Last(new).type = "vad_confidence"
              ELSE ConfidenceMessages(new) = <<>>]_vars

\* a frame at the noise floor was scored and nothing was sent for it; the
\* next frames were reported, the last of them after its speech_start and
\* with the is_speaking value it set
C16_Witness ==
    \E c \in Conns :
        /\ Quiet(c)
        /\ Len(Scored(c)) = 3
        /\ Scored(c)[1].confidence = CONFIDENCE_FLOOR
        /\ Scored(c)[3].event = "speech_start"
        /\ Len(sent[c]) = 3
        /\ sent[c][1].type = "vad_confidence" /\ ~sent[c][1].is_speaking
        /\ sent[c][2].type = "vad_event"
        /\ sent[c][3].type = "vad_confidence" /\ sent[c][3].is_speaking

\* C17: resampler ratio.  For one call of resample_24k_to_16k on a fresh
\* AudioService with an input of length L >= 3, the length of the output
\* differs from floor(L / 1.5) by at most 1.
C17_ResamplerRatio ==
    \A c \in Conns :
        (Len(chunks[c]) = 1 /\ Len(chunks[c][1]) >= 3) =>
            LET L == Len(chunks[c][1])
            IN  /\ Len(out16[c]) - (2 * L) \div 3 \in {-1, 0, 1}
                /\ out16[c] =
                      resample_24k_to_16k(AudioServiceInit, chunks[c][1]).resampled

\* a fresh session resampled one chunk of seven or more samples into one
\* sample more than floor(L / 1.5)
C17_Witness ==
    \E c \in Conns :
        /\ Len(chunks[c]) = 1
        /\ Len(chunks[c][1]) >= 7
        /\ Len(out16[c]) = (2 * Len(chunks[c][1])) \div 3 + 1

\* the frame buffer of a connection's session
FrameBuffer(c) == heap[session[c]].vad_service.audio_buffer

\* C18: frame buffer bound.  After every process_audio call has returned,
\* the frame buffer holds fewer than VAD_CHUNK_SIZE samples, whatever the
\* length of the chunk: every whole frame in the buffer was released during
\* the call that completed it.
C18_FrameBufferBound ==
    \A c \in Conns :
        (Quiet(c) /\ session[c] # 0) => Len(FrameBuffer(c)) < VAD_CHUNK_SIZE

\* the scorer put the frame below the silence threshold
IsSilence(o) == ~o.raised /\ o.confidence < silence_threshold

\* C19: silence branch of the hysteresis update.  For a frame with
\* confidence < silence_threshold, silence_frames grows by the frame's sample
\* count and speech_frames becomes 0; speech_end is returned and is_speaking
\* becomes false exactly when is_speaking was true and the new
\* silence_frames >= min_silence_duration_ms * sample_rate / 1000; otherwise
\* no event is returned and is_speaking is as it was.
C19_SilenceBranch ==
    [][\A c \in Conns :
          (/\ Len(results'[c]) = Len(results[c]) + 1
           /\ Last(results'[c]).vad_chunk # EmptyArray
           /\ IsSilence(Last(results'[c])))
          => LET o == Last(results'[c])
                 old == Hysteresis(c)
                 new == Hysteresis(c)'
                 ends == /\ old.is_speaking
                         /\ new.silence_frames >=
                               min_silence_duration_ms * frames_per_ms
             IN  /\ new.silence_frames = old.silence_frames + Len(o.vad_chunk)
                 /\ new.speech_frames = 0
                 /\ o.event = IF ends THEN "speech_end" ELSE "None"
                 /\ result'[c].event = o.event
                 /\ new.is_speaking = IF ends THEN FALSE ELSE old.is_speaking]_vars

\* silent frames were scored before speech started, while speaking with the
\* silence still short, at the frame that ended the speech, and after it
C19_Witness ==
    \E c \in Conns :
        LET fr == Scored(c)
        IN  \E i, j, k, l \in 1..Len(fr) :
                /\ 1 < i /\ i < j /\ j < k /\ k < l
                /\ IsSilence(fr[1]) /\ fr[1].event = "None"
                /\ fr[i].event = "speech_start"
                /\ IsSilence(fr[j]) /\ fr[j].event = "None"
                /\ IsSilence(fr[k]) /\ fr[k].event = "speech_end"
                /\ IsSilence(fr[l]) /\ fr[l].event = "None"

\* the frame of a connection that is with the scorer, if any
InFlight(c) == Concat([j \in 1..Cardinality(JobsOf(c)) |->
                          (CHOOSE job \in JobsOf(c) : TRUE).vad_chunk])

\* C20: frame accumulator sample conservation.  After any sequence of
\* process_audio calls without reset and without scorer failure, the frames
\* handed to the scorer, in order, followed by the frame buffer, are the
\* input chunks of those calls in arrival order: no sample is lost,
\* duplicated or reordered.
C20_SampleConservation ==
    \A c \in Conns :
        session[c] # 0 =>
            /\ Concat(FramesOf(results[c])) \o InFlight(c) \o FrameBuffer(c)
                  = out16[c]
            /\ \A i \in 1..Len(FramesOf(results[c])) :
                  Len(FramesOf(results[c])[i]) = VAD_CHUNK_SIZE

\* three frames of a session have been scored, the second unlike the first,
\* and more than a frame of samples waits in the buffer
C20_Witness ==
    \E c \in Conns :
        /\ Quiet(c)
        /\ Len(FramesOf(results[c])) = 3
        /\ FramesOf(results[c])[1] # FramesOf(results[c])[2]
        /\ Len(FrameBuffer(c)) > VAD_CHUNK_SIZE
        /\ FrameBuffer(c)[1] # FrameBuffer(c)[Len(FrameBuffer(c))]

\* C21: scorer input contract.  Every frame process_audio passes to
\* process_audio_chunk has exactly VAD_CHUNK_SIZE samples, whatever the sizes
\* of the chunks, resets included.
C21_ScorerInputContract ==
    /\ \A job \in thread_pool : Len(job.vad_chunk) = VAD_CHUNK_SIZE
    /\ \A c \in Conns :
          \A i \in 1..Len(results[c]) :
              Len(results[c][i].vad_chunk) \in {0, VAD_CHUNK_SIZE}

\* after a reset that found a whole frame of samples in the frame buffer, a
\* frame is with the scorer
C21_Witness ==
    \E c \in Conns :
        /\ reset_from[c] # <<>>
        /\ Len(reset_from[c][1].vad_service.audio_buffer) >= VAD_CHUNK_SIZE
        /\ JobsOf(c) # {}

\* the resampler buffer of a connection's session
ResamplerBuffer(c) == heap[session[c]].audio_service.audio_buffer

\* C22: resampler short-input edge case.  When the resampler buffer, with
\* the new chunk appended, holds fewer than 3 samples, resample_24k_to_16k
\* returns an empty sequence and the buffer afterwards is the previous
\* remainder followed by the new chunk.
C22_ResamplerShortInput ==
    [][\A c \in Conns :
          (/\ Len(chunks'[c]) = Len(chunks[c]) + 1
           /\ Len(ResamplerBuffer(c)) + Len(Last(chunks'[c])) < 3)
          => /\ out16'[c] = out16[c]
             /\ ResamplerBuffer(c)' = ResamplerBuffer(c) \o Last(chunks'[c])
             /\ FrameBuffer(c)' = FrameBuffer(c)
             /\ thread_pool' = thread_pool]_vars

\* after two calls that produced output, a one-sample chunk unlike the
\* one-sample remainder was appended to it and nothing was returned
C22_Witness ==
    \E c \in Conns :
        /\ Quiet(c)
        /\ Len(chunks[c]) = 3
        /\ Len(Last(chunks[c])) = 1
        /\ Len(out16[c]) = 5
        /\ Len(ResamplerBuffer(c)) = 2
        /\ ResamplerBuffer(c)[1] # ResamplerBuffer(c)[2]
        /\ ResamplerBuffer(c)[2] = Last(chunks[c])[1]

\* C23: run counters are mutually exclusive.  In every reachable hysteresis
\* state, after any sequence of frames and resets, at most one of
\* speech_frames and silence_frames is nonzero.
C23_RunCountersExclusive ==
    \A i \in 1..Len(heap) :
        LET vp == heap[i].vad_service.vad_processor
        IN  /\ vp.speech_frames >= 0
            /\ vp.silence_frames >= 0
            /\ vp.speech_frames = 0 \/ vp.silence_frames = 0

\* a silent frame, then a frame of speech, then a frame in the dead zone
\* were scored, and the run of speech is the one counted
C23_Witness ==
    \E c \in Conns :
        LET fr == Scored(c)
        IN  /\ \E i, j \in 1..Len(fr) :
                  /\ i < j /\ j < Len(fr)
                  /\ IsSilence(fr[i])
                  /\ IsSpeech(fr[j])
                  /\ IsDeadZone(fr[Len(fr)])
            /\ Hysteresis(c).speech_frames > 0
            /\ Hysteresis(c).silence_frames = 0

RECURSIVE AlternatesFrom(_, _)
\* the vad_event messages of a sequence of messages alternate, a speech_start
\* coming only when not speaking and a speech_end only when speaking, each
\* reset_complete starting over from not speaking
AlternatesFrom(msgs, speaking) ==
    IF msgs = <<>> THEN TRUE
    ELSE LET m == Head(msgs)
         IN  IF m.type = "reset_complete"
             THEN AlternatesFrom(Tail(msgs), FALSE)
             ELSE IF m.type = "vad_event"
             THEN IF m.event = "speech_start"
                  THEN ~speaking /\ AlternatesFrom(Tail(msgs), TRUE)
                  ELSE speaking /\ AlternatesFrom(Tail(msgs), FALSE)
             ELSE AlternatesFrom(Tail(msgs), speaking)

\* the events of the frames scored since construction or the last reset
EventsScored(c) ==
    LET ev == SelectSeq(Scored(c), LAMBDA o : o.event # "None")
    IN  [i \in 1..Len(ev) |-> ev[i].event]

\* C24: event alternation.  In the events a session emits from its creation
\* to its first reset, and between two consecutive resets, speech_start and
\* speech_end alternate and the first is speech_start.
C24_EventAlternation ==
    \A c \in Conns :
        /\ AlternatesFrom(sent[c], FALSE)
        /\ \A i \in 1..Len(EventsScored(c)) :
              EventsScored(c)[i] =
                  IF i % 2 = 1 THEN "speech_start" ELSE "speech_end"

\* a session has emitted speech_start, speech_end and speech_start again
C24_Witness ==
    \E c \in Conns :
        /\ Quiet(c)
        /\ EventsScored(c) = <<"speech_start", "speech_end", "speech_start">>
        /\ EventsSent(c) = EventsScored(c)

\* C25: event confidence side.  Every speech_start emitted carries a
\* confidence strictly above speech_threshold and every speech_end one
\* strictly below silence_threshold; no event is emitted for a frame whose
\* confidence lies in [silence_threshold, speech_threshold].
C25_EventConfidenceSide ==
    \A c \in Conns :
        /\ \A i \in 1..Len(sent[c]) :
              sent[c][i].type = "vad_event" =>
                  /\ sent[c][i].event \in {"speech_start", "speech_end"}
                  /\ sent[c][i].event = "speech_start" =>
                        sent[c][i].confidence > speech_threshold
                  /\ sent[c][i].event = "speech_end" =>
                        sent[c][i].confidence < silence_threshold
        /\ \A i \in 1..Len(results[c]) :
              /\ results[c][i].event = "speech_start" => IsSpeech(results[c][i])
              /\ results[c][i].event = "speech_end" => IsSilence(results[c][i])
              /\ (results[c][i].vad_chunk # EmptyArray /\ IsDeadZone(results[c][i]))
                    => results[c][i].event = "None"

\* a session was sent a speech_start and a speech_end, and between the two
\* events a frame in the dead zone was scored
C25_Witness ==
    \E c \in Conns :
        LET fr == Scored(c)
        IN  /\ Quiet(c)
            /\ EventsSent(c) = <<"speech_start", "speech_end">>
            /\ \E i, j, k \in 1..Len(fr) :
                  /\ i < j /\ j < k
                  /\ fr[i].event = "speech_start"
                  /\ IsDeadZone(fr[j])
                  /\ fr[k].event = "speech_end"

\* C26: resampler remainder bound.  After every resample_24k_to_16k call,
\* whatever the chunk lengths and the number of calls, resets included, the
\* resampler buffer holds at most 2 samples, and it holds at least 1 after a
\* call that returned output.
C26_ResamplerRemainderBound ==
    /\ [](\A i \in 1..Len(heap) : Len(heap[i].audio_service.audio_buffer) <= 2)
    /\ [][\A c \in Conns :
            (/\ Len(chunks'[c]) = Len(chunks[c]) + 1
             /\ out16'[c] # out16[c])
            => Len(ResamplerBuffer(c)') >= 1]_vars

\* after a reset that found a remainder, one call left a remainder of two
\* samples and the next a remainder of one
C26_Witness ==
    \E c \in Conns :
        /\ reset_from[c] # <<>>
        /\ reset_from[c][1].audio_service.audio_buffer # EmptyArray
        /\ Len(chunks[c]) = 2
        /\ Len(chunks[c][1]) = 3
        /\ Len(out16[c]) = 5
        /\ Len(ResamplerBuffer(c)) = 1

====
